---- MODULE Spec2Model ----
(***************************************************************************)
(* DocumentsStore (app/stores/DocumentsStore.js): the client-side cache of *)
(* documents, the recently-viewed id list and the paginated search cache.  *)
(* A request is issued by a call action and stays in `inflight` until its  *)
(* response is handled.  A response is handled in one step: the code after *)
(* the await runs to its end, and the continuation of an outer async       *)
(* function (fetchRecentlyViewed after fetchNamedPage, delete after        *)
(* BaseStore.delete) runs in the microtasks of the same response, before   *)
(* the transport delivers another one.  SpecTurn takes the continuation of *)
(* search statement by statement instead, and SpecCollection reads the     *)
(* collection views of a table.                                            *)
(*                                                                         *)
(* BaseStore (data, isFetching, isLoaded, add, remove, delete) and         *)
(* Document.updateFromJson are not part of this file and are modelled from *)
(* the specification.  Not modelled: the fields of an instance that has    *)
(* left the table, BaseStore.isSaving, the collections store, and the      *)
(* pin/unpin/star/unstar requests, which change nothing in this store.     *)
(***************************************************************************)
EXTENDS Integers, Sequences, FiniteSets, TLC

\* ---------------------------------------------------------------- bounds
MaxInFlight == 2      \* requests awaiting their response at the same time
MaxPage == 2          \* entities in one response payload
MaxOffset == 2        \* largest options.offset a caller passes
MaxLimit == 2         \* largest options.limit a caller passes
MaxCache == 3         \* cap on the length of one cached result sequence
MaxTable == 3         \* documents in a table the collection views read

\* ------------------------------------------------------------- universe
\* Ids and urlIds are strings, modelled as sequences of characters so that
\* String.prototype.endsWith is computed and not assumed.
DocIds == {<<1>>, <<2>>}
UrlIdOf(id) == <<id[1] + 6>>
\* what a caller may pass to fetch/prefetchDocument: an id, or a url slug
\* that ends with a document's urlId
FetchArgs == DocIds \cup {<<5, 7>>, <<5, 8>>}
Queries == {"q"}
Versions == {1, 2}
Rankings == {1}
\* options.offset / options.limit left out by the caller
Absent == -1

\* the raw entity a response carries for document `id`
Payload(id, v) == [id |-> id, urlId |-> UrlIdOf(id), updatedAt |-> v]
Payloads == {Payload(id, v) : id \in DocIds, v \in Versions}
\* one element of a documents.search response
Hits == [ranking : Rankings, context : {"ctx"}, document : Payloads]

RECURSIVE SeqsUpTo(_, _)
SeqsUpTo(S, n) ==
  IF n = 0 THEN {<<>>}
  ELSE LET shorter == SeqsUpTo(S, n - 1)
       IN shorter \cup {Append(s, x) : s \in {t \in shorter : Len(t) = n - 1}, x \in S}

Min(a, b) == IF a < b THEN a ELSE b
Max(a, b) == IF a > b THEN a ELSE b

VARIABLES
  data,               \* BaseStore.data: the entity table, in insertion order
  isFetching,         \* BaseStore.isFetching
  isLoaded,           \* BaseStore.isLoaded
  recentlyViewedIds,  \* DocumentsStore.recentlyViewedIds
  searchCache,        \* DocumentsStore.searchCache: query -> results
  inflight,           \* requests sent to the transport and not yet answered
  ret                 \* what the last call or handler gave its caller

vars == <<data, isFetching, isLoaded, recentlyViewedIds, searchCache, inflight, ret>>

\* ------------------------------------------------------ entity instances
\* A Document instance is identified by its id and an instance number: the
\* table holds at most one instance per id, and an instance removed from the
\* table may still be referenced by a cached search result or by the
\* argument of a call in flight.
NoRef == [id |-> <<>>, inst |-> 0]
NoDoc == [id |-> <<>>, urlId |-> <<>>, updatedAt |-> 0, inst |-> 0]
RefOf(doc) == [id |-> doc.id, inst |-> doc.inst]

\* this.data.get(id)
get(tbl, id) ==
  IF \E i \in 1..Len(tbl) : tbl[i].id = id
  THEN tbl[CHOOSE i \in 1..Len(tbl) : tbl[i].id = id]
  ELSE NoDoc

has(tbl, id) == get(tbl, id) # NoDoc

\* the instances something outside the table still refers to: the documents
\* of cached search results and the document arguments of calls in flight
UsedRefs ==
  UNION {{searchCache[q][i].document : i \in 1..Len(searchCache[q])} : q \in DOMAIN searchCache}
    \cup {inflight[i].doc : i \in 1..Len(inflight)}

\* new Model(item, this): a new instance, numbered with the least number no
\* live reference to an instance of that id carries
NewInst(id, used) ==
  CHOOSE n \in 1..(Cardinality(used) + 1) :
    /\ [id |-> id, inst |-> n] \notin used
    /\ \A m \in 1..(n - 1) : [id |-> id, inst |-> m] \in used

\* BaseStore.add(item): an entity already in the table is updated in place
\* (same instance, same position); a new one is constructed and appended
add(tbl, item, used) ==
  IF has(tbl, item.id)
  THEN [i \in 1..Len(tbl) |->
          IF tbl[i].id = item.id
          THEN [tbl[i] EXCEPT !.urlId = item.urlId, !.updatedAt = item.updatedAt]
          ELSE tbl[i]]
  ELSE Append(tbl, [id |-> item.id, urlId |-> item.urlId,
                    updatedAt |-> item.updatedAt,
                    inst |-> NewInst(item.id, used)])

\* data.forEach(this.add)
RECURSIVE addAll(_, _, _)
addAll(tbl, items, used) ==
  IF items = <<>> THEN tbl
  ELSE addAll(add(tbl, Head(items), used), Tail(items), used)

\* BaseStore.remove(id): this.data.delete(id)
remove(tbl, id) == SelectSeq(tbl, LAMBDA d : d.id # id)

\* String.prototype.endsWith
endsWith(s, suffix) ==
  /\ Len(suffix) <= Len(s)
  /\ SubSeq(s, Len(s) - Len(suffix) + 1, Len(s)) = suffix

\* getByUrl comparing the url with the urlId instead of its end
getByUrlExact(tbl, url) ==
  IF \E i \in 1..Len(tbl) : url = tbl[i].urlId
  THEN tbl[CHOOSE i \in 1..Len(tbl) : url = tbl[i].urlId]
  ELSE NoDoc

\* getByUrl(url): lodash find over Array.from(this.data.values()), the first
\* document in table order whose urlId ends the url
getByUrl(tbl, url) ==
  IF \E i \in 1..Len(tbl) : endsWith(url, tbl[i].urlId)
  THEN tbl[CHOOSE i \in 1..Len(tbl) :
             /\ endsWith(url, tbl[i].urlId)
             /\ \A j \in 1..(i - 1) : ~endsWith(url, tbl[j].urlId)]
  ELSE NoDoc

\* this.data.get(id) || this.getByUrl(id)
lookup(tbl, id) == IF has(tbl, id) THEN get(tbl, id) ELSE getByUrl(tbl, id)

\* uniq left out of the merge
uniqNothing(s) == s

\* lodash uniq: the first occurrence of every element, in order
RECURSIVE uniq(_)
uniq(s) ==
  IF s = <<>> THEN <<>>
  ELSE LET front == uniq(SubSeq(s, 1, Len(s) - 1))
           x == s[Len(s)]
       IN IF \E i \in 1..Len(front) : front[i] = x THEN front ELSE Append(front, x)

\* lodash without(array, value)
without(s, x) == SelectSeq(s, LAMBDA y : y # x)

\* lodash map(data, 'id')
mapId(items) == [i \in 1..Len(items) |-> items[i].id]

\* options.offset || 0, options.limit || 0
orZero(x) == IF x = Absent THEN 0 ELSE x

\* Array.prototype.splice(start, deleteCount, ...items) for start >= 0
splice(arr, start, deleteCount, items) ==
  LET len == Len(arr)
      actualStart == Min(start, len)
      actualDeleteCount == Min(Max(deleteCount, 0), len - actualStart)
  IN SubSeq(arr, 1, actualStart) \o items
       \o SubSeq(arr, actualStart + actualDeleteCount + 1, len)

\* searchResults(query): this.searchCache.get(query) || []
searchResults(query) ==
  IF query \in DOMAIN searchCache THEN searchCache[query] ELSE <<>>

\* the results built from a search response: each result resolved against
\* the table, the unresolved ones dropped by compact
RECURSIVE buildResults(_, _)
buildResults(tbl, page) ==
  IF page = <<>> THEN <<>>
  ELSE LET result == Head(page)
           document == get(tbl, result.document.id)
           rest == buildResults(tbl, Tail(page))
       IN IF document = NoDoc THEN rest
          ELSE <<[ranking |-> result.ranking, context |-> result.context,
                  document |-> RefOf(document)]>> \o rest

\* the documents of a search response, in order
hitDocuments(page) == [i \in 1..Len(page) |-> page[i].document]


\* ------------------------------------------------------------- requests
\* one call awaiting the transport: the operation and the arguments its
\* continuation still uses
Req(op, id, prefetch, query, offset, limit, doc) ==
  [op |-> op, id |-> id, prefetch |-> prefetch, query |-> query,
   offset |-> offset, limit |-> limit, doc |-> doc]

NoReq == Req("none", <<>>, FALSE, "", Absent, Absent, NoRef)

\* the transport's answer: a response with data, a response without data,
\* or a failure
Outcomes == {"data", "nodata", "fail"}

\* `ret` after a step: the call the step belongs to, how the step left it
\* (awaiting the transport, returned, failed), the instance it returned, and
\* what it edits as it was when the step began: the length of the cached
\* results of its query (search) or of recentlyViewedIds
\* (fetchRecentlyViewed, delete), the updatedAt of the table's entry, 0 for
\* none (fetch)
Pending(req) == [kind |-> "pending", val |-> NoRef, req |-> req, before |-> 0]
Returned(req, ref, n) == [kind |-> "return", val |-> ref, req |-> req, before |-> n]
\* a transport failure propagates ("throw"); a response without data fails
\* invariant(res && res.data) ("violation")
Thrown(req, outcome) ==
  [kind |-> IF outcome = "nodata" THEN "violation" ELSE "throw",
   val |-> NoRef, req |-> req, before |-> 0]

dropAt(s, i) == SubSeq(s, 1, i - 1) \o SubSeq(s, i + 1, Len(s))

CanSend == Len(inflight) < MaxInFlight

\* the instances a caller can hand to move, duplicate, delete and restore
TableDocs == {data[i] : i \in 1..Len(data)}

Init ==
  /\ data = <<>>
  /\ isFetching = FALSE
  /\ isLoaded = FALSE
  /\ recentlyViewedIds = <<>>
  /\ searchCache = <<>>
  /\ inflight = <<>>
  /\ ret = [kind |-> "none", val |-> NoRef, req |-> NoReq, before |-> 0]

\* client.post / client.get: the request leaves and the call awaits it
send(req) ==
  /\ CanSend
  /\ inflight' = Append(inflight, req)
  /\ ret' = Pending(req)

\* ------------------------------------------------- fetchNamedPage family
\* fetchNamedPage(request, options) up to its await; fetchRecentlyUpdated,
\* fetchAlphabetical, fetchStarred, fetchDrafts, fetchPinned, fetchOwned are
\* this call with other request names and options, which only the server reads
FetchNamedPageCall ==
  /\ isFetching' = TRUE
  /\ send(Req("fetchNamedPage", <<>>, FALSE, "", Absent, Absent, NoRef))
  /\ UNCHANGED <<data, isLoaded, recentlyViewedIds, searchCache>>

\* fetchRecentlyViewed(options) up to the await inside fetchNamedPage('viewed')
FetchRecentlyViewedCall ==
  /\ isFetching' = TRUE
  /\ send(Req("fetchRecentlyViewed", <<>>, FALSE, "", Absent, Absent, NoRef))
  /\ UNCHANGED <<data, isLoaded, recentlyViewedIds, searchCache>>

\* fetchNamedPage with the flag cleared after the adds instead of in finally
FetchNamedPageDoneNoFinally(outcome, page) ==
  IF outcome = "data"
  THEN /\ data' = addAll(data, page, UsedRefs)
       /\ isLoaded' = TRUE
       /\ isFetching' = FALSE
  ELSE UNCHANGED <<data, isLoaded, isFetching>>

\* fetchNamedPage after its await: invariant(res && res.data), the adds and
\* isLoaded in runInAction, and the finally block
FetchNamedPageDone(outcome, page) ==
  /\ isFetching' = FALSE
  /\ IF outcome = "data"
     THEN /\ data' = addAll(data, page, UsedRefs)
          /\ isLoaded' = TRUE
     ELSE UNCHANGED <<data, isLoaded>>

FetchNamedPageResponse(i, outcome, page) ==
  /\ inflight[i].op = "fetchNamedPage"
  /\ FetchNamedPageDone(outcome, page)
  /\ inflight' = dropAt(inflight, i)
  /\ ret' = IF outcome = "data" THEN Returned(inflight[i], NoRef, 0) ELSE Thrown(inflight[i], outcome)
  /\ UNCHANGED <<recentlyViewedIds, searchCache>>

\* fetchRecentlyViewed after its await: fetchNamedPage's continuation, then
\* the merge of the returned ids into recentlyViewedIds
FetchRecentlyViewedResponse(i, outcome, page) ==
  /\ inflight[i].op = "fetchRecentlyViewed"
  /\ FetchNamedPageDone(outcome, page)
  /\ recentlyViewedIds' =
       IF outcome = "data"
       THEN uniq(recentlyViewedIds \o mapId(page))
       ELSE recentlyViewedIds
  /\ inflight' = dropAt(inflight, i)
  /\ ret' = IF outcome = "data"
            THEN Returned(inflight[i], NoRef, Len(recentlyViewedIds))
            ELSE Thrown(inflight[i], outcome)
  /\ UNCHANGED searchCache

\* ---------------------------------------------------------------- search
\* search(query, options) up to its await
SearchCall(query, offset, limit) ==
  /\ send(Req("search", <<>>, FALSE, query, offset, limit, NoRef))
  /\ UNCHANGED <<data, isFetching, isLoaded, recentlyViewedIds, searchCache>>

\* the table after data.forEach(result => this.add(result.document))
searchAdded(page) == addAll(data, hitDocuments(page), UsedRefs)

\* searchMerged with the cache entry replaced by the page instead of spliced
searchMergedReplacing(query, offset, limit, page) ==
  buildResults(searchAdded(page), page)

\* the cached sequence of `query` after the splice of the page's results
searchMerged(query, offset, limit, page) ==
  splice(searchResults(query), orZero(offset), orZero(limit),
         buildResults(searchAdded(page), page))

\* Map.prototype.set
mapSet(m, k, v) == [x \in DOMAIN m \cup {k} |-> IF x = k THEN v ELSE m[x]]

\* search after its await; the server answers a call that gave a limit with
\* at most that many results
SearchResponse(i, outcome, page) ==
  LET req == inflight[i] IN
  /\ req.op = "search"
  /\ IF outcome = "data"
     THEN /\ orZero(req.limit) > 0 => Len(page) <= req.limit
          /\ Len(searchMerged(req.query, req.offset, req.limit, page)) <= MaxCache
          /\ data' = searchAdded(page)
          /\ searchCache' = mapSet(searchCache, req.query,
                                   searchMerged(req.query, req.offset, req.limit, page))
          /\ ret' = Returned(req, NoRef, Len(searchResults(req.query)))
     ELSE /\ ret' = Thrown(req, outcome)
          /\ UNCHANGED <<data, searchCache>>
  /\ inflight' = dropAt(inflight, i)
  /\ UNCHANGED <<isFetching, isLoaded, recentlyViewedIds>>

\* ----------------------------------------------------------------- fetch
\* fetch that joins a request for the same id already in flight instead of
\* sending its own
FetchCallCoalescing(id, prefetch) ==
  LET doc == lookup(data, id)
      req == Req("fetch", id, prefetch, "", Absent, Absent, NoRef)
  IN
  IF doc # NoDoc
  THEN /\ isFetching' = FALSE
       /\ ret' = Returned(req, RefOf(doc), 0)
       /\ UNCHANGED <<data, isLoaded, recentlyViewedIds, searchCache, inflight>>
  ELSE /\ isFetching' = IF prefetch THEN isFetching ELSE TRUE
       /\ IF \E i \in 1..Len(inflight) : inflight[i].op = "fetch" /\ inflight[i].id = id
          THEN /\ ret' = Pending(req)
               /\ UNCHANGED inflight
          ELSE send(req)
       /\ UNCHANGED <<data, isLoaded, recentlyViewedIds, searchCache>>

\* fetch(id, options) up to its await, or to its return on a cache hit (the
\* finally block runs on both paths that leave the function)
FetchCall(id, prefetch) ==
  LET doc == lookup(data, id)
      req == Req("fetch", id, prefetch, "", Absent, Absent, NoRef)
  IN
  IF doc # NoDoc
  THEN /\ isFetching' = FALSE
       /\ ret' = Returned(req, RefOf(doc), 0)
       /\ UNCHANGED <<data, isLoaded, recentlyViewedIds, searchCache, inflight>>
  ELSE /\ isFetching' = IF prefetch THEN isFetching ELSE TRUE
       /\ send(req)
       /\ UNCHANGED <<data, isLoaded, recentlyViewedIds, searchCache>>

\* prefetchDocument(id)
PrefetchDocumentCall(id) ==
  IF ~has(data, id)
  THEN FetchCall(id, TRUE)
  ELSE /\ ret' = Returned(Req("prefetchDocument", id, TRUE, "", Absent, Absent, NoRef), NoRef, 0)
       /\ UNCHANGED <<data, isFetching, isLoaded, recentlyViewedIds, searchCache, inflight>>

\* the document documents.info answers with: the one the id names, or the
\* one whose urlId ends the slug
ServedId(arg) ==
  IF arg \in DocIds THEN arg ELSE CHOOSE id \in DocIds : endsWith(arg, UrlIdOf(id))

\* fetch that returns the entry it finds after the await instead of adding
\* the response to it
FetchResponseKeepingCached(i, outcome, v) ==
  LET req == inflight[i]
      item == Payload(ServedId(req.id), v)
  IN
  /\ req.op = "fetch"
  /\ isFetching' = FALSE
  /\ IF outcome = "data"
     THEN /\ data' = IF has(data, item.id) THEN data ELSE add(data, item, UsedRefs)
          /\ isLoaded' = TRUE
          /\ ret' = Returned(req, RefOf(get(data', item.id)), get(data, item.id).updatedAt)
     ELSE /\ ret' = Thrown(req, outcome)
          /\ UNCHANGED <<data, isLoaded>>
  /\ inflight' = dropAt(inflight, i)
  /\ UNCHANGED <<recentlyViewedIds, searchCache>>

\* fetch after its await
FetchResponse(i, outcome, v) ==
  LET req == inflight[i]
      item == Payload(ServedId(req.id), v)
  IN
  /\ req.op = "fetch"
  /\ isFetching' = FALSE
  /\ IF outcome = "data"
     THEN /\ data' = add(data, item, UsedRefs)
          /\ isLoaded' = TRUE
          /\ ret' = Returned(req, RefOf(get(data', item.id)), get(data, item.id).updatedAt)
     ELSE /\ ret' = Thrown(req, outcome)
          /\ UNCHANGED <<data, isLoaded>>
  /\ inflight' = dropAt(inflight, i)
  /\ UNCHANGED <<recentlyViewedIds, searchCache>>

\* ---------------------------------------------------- mutating operations
\* a call of move, duplicate, delete or restore up to its await; the caller
\* passes an instance it took from the table
DocumentCall(op, doc) ==
  /\ doc \in TableDocs
  /\ send(Req(op, <<>>, FALSE, "", Absent, Absent, RefOf(doc)))
  /\ UNCHANGED <<data, isFetching, isLoaded, recentlyViewedIds, searchCache>>

MoveCall(doc) == DocumentCall("move", doc)
DuplicateCall(doc) == DocumentCall("duplicate", doc)
DeleteCall(doc) == DocumentCall("delete", doc)
RestoreCall(doc) == DocumentCall("restore", doc)

\* move after its await: the returned document is added
MoveResponse(i, outcome, v) ==
  LET req == inflight[i]
      item == Payload(req.doc.id, v)
  IN
  /\ req.op = "move"
  /\ IF outcome = "data"
     THEN /\ data' = add(data, item, UsedRefs)
          /\ ret' = Returned(req, RefOf(get(data', item.id)), 0)
     ELSE /\ ret' = Thrown(req, outcome)
          /\ UNCHANGED data
  /\ inflight' = dropAt(inflight, i)
  /\ UNCHANGED <<isFetching, isLoaded, recentlyViewedIds, searchCache>>

\* duplicate after its await: the server's new document is added
DuplicateResponse(i, outcome, id, v) ==
  LET req == inflight[i]
      item == Payload(id, v)
  IN
  /\ req.op = "duplicate"
  /\ id # req.doc.id
  /\ IF outcome = "data"
     THEN /\ data' = add(data, item, UsedRefs)
          /\ ret' = Returned(req, RefOf(get(data', item.id)), 0)
     ELSE /\ ret' = Thrown(req, outcome)
          /\ UNCHANGED data
  /\ inflight' = dropAt(inflight, i)
  /\ UNCHANGED <<isFetching, isLoaded, recentlyViewedIds, searchCache>>

\* delete that leaves recentlyViewedIds alone
DeleteResponseKeepingViewed(i, outcome) ==
  LET req == inflight[i] IN
  /\ req.op = "delete"
  /\ IF outcome = "data"
     THEN /\ data' = remove(data, req.doc.id)
          /\ ret' = Returned(req, NoRef, 0)
     ELSE /\ ret' = Thrown(req, outcome)
          /\ UNCHANGED data
  /\ inflight' = dropAt(inflight, i)
  /\ UNCHANGED <<isFetching, isLoaded, searchCache, recentlyViewedIds>>

\* delete after its await: BaseStore.delete removes the id from the table,
\* then the id leaves recentlyViewedIds; documents.delete answers without a
\* payload, so the transport either succeeds or fails
DeleteResponse(i, outcome) ==
  LET req == inflight[i] IN
  /\ req.op = "delete"
  /\ IF outcome = "data"
     THEN /\ data' = remove(data, req.doc.id)
          /\ recentlyViewedIds' = without(recentlyViewedIds, req.doc.id)
          /\ ret' = Returned(req, NoRef, Len(recentlyViewedIds))
     ELSE /\ ret' = Thrown(req, outcome)
          /\ UNCHANGED <<data, recentlyViewedIds>>
  /\ inflight' = dropAt(inflight, i)
  /\ UNCHANGED <<isFetching, isLoaded, searchCache>>

\* document.updateFromJson(json) on the instance the caller passed: the table
\* changes only while it still holds that very instance
updateFromJson(tbl, ref, item) ==
  [i \in 1..Len(tbl) |->
     IF RefOf(tbl[i]) = ref
     THEN [tbl[i] EXCEPT !.urlId = item.urlId, !.updatedAt = item.updatedAt]
     ELSE tbl[i]]

\* restore with the check of res.data left out: a response without data
\* resets the fields the payload should carry
RestoreResponseUnchecked(i, outcome, v) ==
  LET req == inflight[i]
      item == IF outcome = "data" THEN Payload(req.doc.id, v)
              ELSE [id |-> req.doc.id, urlId |-> <<>>, updatedAt |-> 0]
  IN
  /\ req.op = "restore"
  /\ IF outcome # "fail"
     THEN /\ data' = updateFromJson(data, req.doc, item)
          /\ ret' = Returned(req, NoRef, 0)
     ELSE /\ ret' = Thrown(req, outcome)
          /\ UNCHANGED data
  /\ inflight' = dropAt(inflight, i)
  /\ UNCHANGED <<isFetching, isLoaded, recentlyViewedIds, searchCache>>

\* restore after its await
RestoreResponse(i, outcome, v) ==
  LET req == inflight[i]
      item == Payload(req.doc.id, v)
  IN
  /\ req.op = "restore"
  /\ IF outcome = "data"
     THEN /\ data' = updateFromJson(data, req.doc, item)
          /\ ret' = Returned(req, NoRef, 0)
     ELSE /\ ret' = Thrown(req, outcome)
          /\ UNCHANGED data
  /\ inflight' = dropAt(inflight, i)
  /\ UNCHANGED <<isFetching, isLoaded, recentlyViewedIds, searchCache>>

\* ------------------------------------------------------------ the system
InFlightIx == 1..Len(inflight)
\* an explicit 0 is falsy and takes the path of an absent value through `|| 0`
Offsets == {Absent} \cup 1..MaxOffset
Limits == {Absent} \cup 1..MaxLimit
NoData == {<<"nodata", <<>>>>, <<"fail", <<>>>>}
\* what the transport may answer a list request, a search, and a request
\* for one document: <<outcome, payload>>
ListAnswers == {<<"data", page>> : page \in SeqsUpTo(Payloads, MaxPage)} \cup NoData
SearchAnswers == {<<"data", page>> : page \in SeqsUpTo(Hits, MaxPage)} \cup NoData
DocAnswers == {<<"data", v>> : v \in Versions} \cup {<<"nodata", 1>>, <<"fail", 1>>}

\* the steps of each group of operations
FetchNamedPageSteps ==
  \/ FetchNamedPageCall
  \/ \E i \in InFlightIx, a \in ListAnswers : FetchNamedPageResponse(i, a[1], a[2])

FetchRecentlyViewedSteps ==
  \/ FetchRecentlyViewedCall
  \/ \E i \in InFlightIx, a \in ListAnswers : FetchRecentlyViewedResponse(i, a[1], a[2])

SearchSteps ==
  \/ \E q \in Queries, offset \in Offsets, limit \in Limits : SearchCall(q, offset, limit)
  \/ \E i \in InFlightIx, a \in SearchAnswers : SearchResponse(i, a[1], a[2])

FetchSteps ==
  \/ \E id \in FetchArgs, prefetch \in BOOLEAN : FetchCall(id, prefetch)
  \/ \E id \in FetchArgs : PrefetchDocumentCall(id)
  \/ \E i \in InFlightIx, a \in DocAnswers : FetchResponse(i, a[1], a[2])

DeleteSteps ==
  \/ \E doc \in TableDocs : DeleteCall(doc)
  \/ \E i \in InFlightIx, o \in {"data", "fail"} : DeleteResponse(i, o)

MutateSteps ==
  \/ \E doc \in TableDocs : MoveCall(doc)
  \/ \E doc \in TableDocs : DuplicateCall(doc)
  \/ \E doc \in TableDocs : RestoreCall(doc)
  \/ \E i \in InFlightIx, a \in DocAnswers : MoveResponse(i, a[1], a[2])
  \/ \E i \in InFlightIx, a \in DocAnswers, id \in DocIds : DuplicateResponse(i, a[1], id, a[2])
  \/ \E i \in InFlightIx, a \in DocAnswers : RestoreResponse(i, a[1], a[2])

\* the store with every operation, up to MaxInFlight requests at a time
Next ==
  \/ FetchNamedPageSteps
  \/ FetchRecentlyViewedSteps
  \/ SearchSteps
  \/ FetchSteps
  \/ DeleteSteps
  \/ MutateSteps

Spec == Init /\ [][Next]_vars

\* the store used through search alone
NextSearch == SearchSteps
SpecSearch == Init /\ [][NextSearch]_vars

\* the store used through the list fetches, fetch, prefetchDocument and delete
NextFetch == FetchNamedPageSteps \/ FetchSteps \/ DeleteSteps
SpecFetch == Init /\ [][NextFetch]_vars

\* the store used through fetchRecentlyViewed and delete, with a server
\* that lists three documents
ViewedIds == {<<1>>, <<2>>, <<3>>}
ViewedAnswers ==
  {<<"data", page>> : page \in SeqsUpTo({Payload(id, 1) : id \in ViewedIds}, MaxPage)}
    \cup NoData
NextViewed ==
  \/ FetchRecentlyViewedCall
  \/ \E i \in InFlightIx, a \in ViewedAnswers : FetchRecentlyViewedResponse(i, a[1], a[2])
  \/ DeleteSteps
SpecViewed == Init /\ [][NextViewed]_vars

\* the store used through the operations that expect a payload, each call
\* awaited before the next
Awaited == Len(inflight') <= 1
NextPayload ==
  \/ FetchNamedPageCall /\ Awaited
  \/ FetchRecentlyViewedCall /\ Awaited
  \/ \E q \in Queries, offset \in Offsets, limit \in Limits : SearchCall(q, offset, limit) /\ Awaited
  \/ \E id \in FetchArgs, prefetch \in BOOLEAN : FetchCall(id, prefetch) /\ Awaited
  \/ \E doc \in TableDocs : MoveCall(doc) /\ Awaited
  \/ \E doc \in TableDocs : DuplicateCall(doc) /\ Awaited
  \/ \E doc \in TableDocs : RestoreCall(doc) /\ Awaited
  \/ \E i \in InFlightIx, a \in ListAnswers : FetchNamedPageResponse(i, a[1], a[2])
  \/ \E i \in InFlightIx, a \in ListAnswers : FetchRecentlyViewedResponse(i, a[1], a[2])
  \/ \E i \in InFlightIx, a \in SearchAnswers : SearchResponse(i, a[1], a[2])
  \/ \E i \in InFlightIx, a \in DocAnswers : FetchResponse(i, a[1], a[2])
  \/ \E i \in InFlightIx, a \in DocAnswers : MoveResponse(i, a[1], a[2])
  \/ \E i \in InFlightIx, a \in DocAnswers, id \in DocIds : DuplicateResponse(i, a[1], id, a[2])
  \/ \E i \in InFlightIx, a \in DocAnswers : RestoreResponse(i, a[1], a[2])
SpecPayload == Init /\ [][NextPayload]_vars

\* the store used through search for the first page, fetch by id, move,
\* restore and delete, each call awaited before the next, with a server that
\* finds at most one document
LiveAnswers == {a \in SearchAnswers : Len(a[2]) <= 1}
NextLive ==
  \/ \E q \in Queries, limit \in 1..MaxLimit : SearchCall(q, Absent, limit) /\ Awaited
  \/ \E id \in DocIds : FetchCall(id, FALSE) /\ Awaited
  \/ \E doc \in TableDocs : MoveCall(doc) /\ Awaited
  \/ \E doc \in TableDocs : RestoreCall(doc) /\ Awaited
  \/ \E doc \in TableDocs : DeleteCall(doc) /\ Awaited
  \/ \E i \in InFlightIx, a \in LiveAnswers : SearchResponse(i, a[1], a[2])
  \/ \E i \in InFlightIx, a \in DocAnswers : FetchResponse(i, a[1], a[2])
  \/ \E i \in InFlightIx, a \in DocAnswers : MoveResponse(i, a[1], a[2])
  \/ \E i \in InFlightIx, a \in DocAnswers : RestoreResponse(i, a[1], a[2])
  \/ \E i \in InFlightIx, o \in {"data", "fail"} : DeleteResponse(i, o)
SpecLive == Init /\ [][NextLive]_vars

\* ------------------------------------------------- the collection views
\* The views read the table and change nothing.  Their tables hold
\* documents with the two more fields the views read: collectionId, and
\* publishedAt, which a draft lacks.
CollectionIds == {"X", "Y"}
Published == {Absent} \cup Versions

\* the tables of up to MaxTable documents; ids only name the documents, so
\* the i-th document inserted is given the id <<i>>
CollectionTables ==
  UNION {[1..n -> [collectionId : CollectionIds, publishedAt : Published,
                   updatedAt : Versions]] : n \in 0..MaxTable}
tableOf(t) ==
  [i \in 1..Len(t) |->
     [id |-> <<i>>, urlId |-> UrlIdOf(<<i>>), updatedAt |-> t[i].updatedAt, inst |-> 1,
      collectionId |-> t[i].collectionId, publishedAt |-> t[i].publishedAt]]

\* publishedInCollection(collectionId): lodash filter keeps the order
publishedInCollection(tbl, collectionId) ==
  SelectSeq(tbl, LAMBDA document :
                   document.collectionId = collectionId /\ document.publishedAt # Absent)

\* orderBy done as a sort that leaves equal keys in whatever order it meets
\* them: descending as the reverse of ascending
orderByReversing(arr, iteratee, order) ==
  LET n == Len(arr)
      before(i, j) ==
        IF arr[i][iteratee] # arr[j][iteratee]
        THEN arr[i][iteratee] < arr[j][iteratee]
        ELSE i < j
      rank(i) == Cardinality({j \in 1..n : before(j, i)}) + 1
      asc == [r \in 1..n |-> arr[CHOOSE i \in 1..n : rank(i) = r]]
  IN IF order = "desc" THEN [r \in 1..n |-> asc[n + 1 - r]] ELSE asc

\* lodash orderBy(collection, iteratee, order): the elements sorted by the
\* comparator of baseOrderBy, which compares the keys, inverts the outcome
\* for 'desc', and falls back on the elements' indexes when the keys are equal
orderBy(arr, iteratee, order) ==
  LET n == Len(arr)
      before(i, j) ==
        IF arr[i][iteratee] # arr[j][iteratee]
        THEN IF order = "desc"
             THEN arr[i][iteratee] > arr[j][iteratee]
             ELSE arr[i][iteratee] < arr[j][iteratee]
        ELSE i < j
      rank(i) == Cardinality({j \in 1..n : before(j, i)}) + 1
  IN [r \in 1..n |-> arr[CHOOSE i \in 1..n : rank(i) = r]]

\* recentlyUpdatedInCollection(collectionId)
recentlyUpdatedInCollection(tbl, collectionId) ==
  orderBy(publishedInCollection(tbl, collectionId), "updatedAt", "desc")

\* leastRecentlyUpdatedInCollection(collectionId)
leastRecentlyUpdatedInCollection(tbl, collectionId) ==
  orderBy(publishedInCollection(tbl, collectionId), "updatedAt", "asc")

\* a store that holds any table
InitCollection ==
  /\ data \in {tableOf(t) : t \in CollectionTables}
  /\ isFetching = FALSE
  /\ isLoaded = TRUE
  /\ recentlyViewedIds = <<>>
  /\ searchCache = <<>>
  /\ inflight = <<>>
  /\ ret = [kind |-> "none", val |-> <<>>, req |-> NoReq, before |-> 0]

\* a reader calls a view: `ret` holds the sequence it is given
ViewCall(view, collectionId, result) ==
  /\ ret' = [kind |-> "return", val |-> result,
             req |-> Req(view, <<>>, FALSE, collectionId, Absent, Absent, NoRef),
             before |-> 0]
  /\ UNCHANGED <<data, isFetching, isLoaded, recentlyViewedIds, searchCache, inflight>>

RecentlyUpdatedInCollectionCall(collectionId) ==
  ViewCall("recentlyUpdatedInCollection", collectionId,
           recentlyUpdatedInCollection(data, collectionId))

LeastRecentlyUpdatedInCollectionCall(collectionId) ==
  ViewCall("leastRecentlyUpdatedInCollection", collectionId,
           leastRecentlyUpdatedInCollection(data, collectionId))

NextCollection ==
  \/ \E c \in CollectionIds : RecentlyUpdatedInCollectionCall(c)
  \/ \E c \in CollectionIds : LeastRecentlyUpdatedInCollectionCall(c)
SpecCollection == InitCollection /\ [][NextCollection]_vars

\* ------------------------------------------- search, statement by statement
\* The continuation of search after its await, in two steps: the adds of
\* line 220, then the results, the splice and the set of lines 224-243.  An
\* entry of `inflight` with op "searchAdded" is a search between the two
\* steps; `running` says whether it still holds the thread.  The event loop
\* starts a call or hands over a response only when no continuation holds
\* the thread.

\* search with an await between the adds and the merge
SearchTurnAwaiting(req, page) ==
  [op |-> "searchAdded", id |-> req.id, prefetch |-> req.prefetch, query |-> req.query,
   offset |-> req.offset, limit |-> req.limit, doc |-> req.doc,
   page |-> page, running |-> FALSE]

\* the search of `req` after line 220: no await stands between the adds and
\* the merge, so the continuation keeps the thread
SearchTurn(req, page) ==
  [op |-> "searchAdded", id |-> req.id, prefetch |-> req.prefetch, query |-> req.query,
   offset |-> req.offset, limit |-> req.limit, doc |-> req.doc,
   page |-> page, running |-> TRUE]

\* no continuation holds the thread
Idle == \A i \in InFlightIx : inflight[i].op = "searchAdded" => ~inflight[i].running

\* search from its await to the end of line 220
SearchResumes(i, outcome, page) ==
  LET req == inflight[i] IN
  /\ Idle
  /\ req.op = "search"
  /\ IF outcome = "data"
     THEN /\ orZero(req.limit) > 0 => Len(page) <= req.limit
          /\ Len(searchMerged(req.query, req.offset, req.limit, page)) <= MaxCache
          /\ data' = searchAdded(page)
          /\ inflight' = [inflight EXCEPT ![i] = SearchTurn(req, page)]
          /\ ret' = ret
     ELSE /\ ret' = Thrown(req, outcome)
          /\ inflight' = dropAt(inflight, i)
          /\ UNCHANGED data
  /\ UNCHANGED <<isFetching, isLoaded, recentlyViewedIds, searchCache>>

\* search from line 224 to its return
SearchMerges(i) ==
  LET turn == inflight[i]
      merged == splice(searchResults(turn.query), orZero(turn.offset), orZero(turn.limit),
                       buildResults(data, turn.page))
  IN
  /\ turn.op = "searchAdded"
  /\ turn.running \/ Idle
  /\ Len(merged) <= MaxCache
  /\ searchCache' = mapSet(searchCache, turn.query, merged)
  /\ inflight' = dropAt(inflight, i)
  /\ ret' = Returned(Req("search", turn.id, turn.prefetch, turn.query,
                         turn.offset, turn.limit, turn.doc),
                     NoRef, Len(searchResults(turn.query)))
  /\ UNCHANGED <<data, isFetching, isLoaded, recentlyViewedIds>>

\* the store used through search from the first result on and fetch by id,
\* the continuation of search taken statement by statement, with a server
\* that finds at most one document
NextTurn ==
  \/ \E q \in Queries, limit \in Limits : SearchCall(q, Absent, limit) /\ Idle
  \/ \E i \in InFlightIx, a \in LiveAnswers : SearchResumes(i, a[1], a[2])
  \/ \E i \in InFlightIx : SearchMerges(i)
  \/ \E id \in DocIds : FetchCall(id, FALSE) /\ Idle
  \/ \E i \in InFlightIx, a \in DocAnswers : FetchResponse(i, a[1], a[2]) /\ Idle
SpecTurn == Init /\ [][NextTurn]_vars

\* ================================================================ claims
HitPages == SeqsUpTo(Hits, MaxPage)

\* the number of results the search recorded in `ret` put into the cache
lastCount(req) ==
  LET start == Min(orZero(req.offset), ret.before)
  IN Len(searchResults(req.query)) - ret.before
       + Min(orZero(req.limit), ret.before - start)

\* `page` is the response the search recorded in `ret` completed with: it
\* builds the results that search spliced in, and adding its documents again
\* changes nothing in the table
SameResponseAsLast(req, page) ==
  LET start == Min(orZero(req.offset), ret.before) IN
  /\ ret.kind = "return"
  /\ ret.req = req
  /\ lastCount(req) = Len(page)
  /\ SubSeq(searchResults(req.query), start + 1, start + Len(page)) = buildResults(data, page)
  /\ searchAdded(page) = data

\* this step is the completion of a search with data
SearchCompletes ==
  /\ ret'.kind = "return"
  /\ ret'.req.op = "search"
  /\ Len(inflight') < Len(inflight)

\* C1: when search(q, {offset: o, limit: l}), l > 0, completes twice in
\* succession with the same response page of l results, the cached sequence
\* of q after the second completion equals the one after the first.
C1_SearchMergeIdempotent ==
  [][(SearchCompletes /\ ret'.req = ret.req /\ ret.kind = "return" /\ ret.req.limit > 0)
     => \A i \in InFlightIx, page \in HitPages :
          LET req == inflight[i] IN
          (/\ Len(page) = req.limit
           /\ SameResponseAsLast(req, page)
           /\ SearchResponse(i, "data", page))
          => searchCache'[req.query] = searchCache[req.query]]_vars

\* C2: a search(q, {offset: o, limit: l}) that completes, with however many
\* results, leaves every element cached for q at an index outside [o, o+l)
\* at the same index.
C2_SearchOverwritesOnlyItsRange ==
  [][(SearchCompletes /\ ret'.req.limit > 0)
     => LET req == ret'.req
            o == orZero(req.offset)
            old == searchResults(req.query)
        IN \A k \in 1..Len(old) :
             (k <= o \/ k > o + req.limit)
             => /\ k <= Len(searchCache'[req.query])
                /\ searchCache'[req.query][k] = old[k]]_vars

\* C3: the cached sequence of a query never shrinks: its length after a
\* completed search is at least its length before.
C3_SearchCacheNeverShrinks ==
  [][SearchCompletes
     => Len(searchCache'[ret'.req.query]) >= Len(searchResults(ret'.req.query))]_vars

\* C4: when the cache of q holds n results and search(q, {offset: n, limit: l})
\* completes with l results, the cache has n + l results, the first n are the
\* ones it had, and the next l are the page's results in response order.
C4_AppendKeepsEarlierPage ==
  [][(/\ SearchCompletes
      /\ ret'.req.limit > 0
      /\ orZero(ret'.req.offset) = Len(searchResults(ret'.req.query)))
     => \A i \in InFlightIx, page \in HitPages :
          LET req == inflight[i]
              old == searchResults(req.query)
              n == Len(old)
          IN
          (/\ req = ret'.req
           /\ Len(page) = req.limit
           /\ SearchResponse(i, "data", page))
          => /\ Len(searchCache'[req.query]) = n + req.limit
             /\ SubSeq(searchCache'[req.query], 1, n) = old
             /\ \A j \in 1..req.limit :
                  searchCache'[req.query][n + j] =
                    [ranking |-> page[j].ranking, context |-> page[j].context,
                     document |-> RefOf(get(data', page[j].document.id))]]_vars

\* a search with offset 1 and limit 2 has just appended a full page to a
\* cache of one result
C4_Witness ==
  /\ ret.kind = "return"
  /\ ret.req.op = "search"
  /\ ret.req.offset = 1
  /\ ret.req.limit = 2
  /\ ret.before = 1
  /\ Len(searchResults(ret.req.query)) = 3


\* this step is a call of fetch: it returned from the cache or sent a request
FetchCalled ==
  /\ ret'.req.op = "fetch"
  /\ Len(inflight') >= Len(inflight)

\* the cached documents fetch(id) may answer with: the entry of id, or a
\* document whose urlId ends id
CachedFor(id) == {d \in TableDocs : d.id = id \/ endsWith(id, d.urlId)}

\* C5: fetch(id) sends no request and returns the cached instance whenever
\* the table has an entry for id or a cached document's urlId ends id; it
\* sends a documents.info request only when neither lookup finds a document.
C5_FetchServesFromCache ==
  [][FetchCalled
     => LET id == ret'.req.id IN
        IF CachedFor(id) # {}
        THEN /\ inflight' = inflight
             /\ ret'.kind = "return"
             /\ ret'.val \in {RefOf(d) : d \in CachedFor(id)}
             /\ has(data, id) => ret'.val = RefOf(get(data, id))
             /\ data' = data
        ELSE /\ inflight' = Append(inflight, ret'.req)
             /\ ret'.kind = "pending"]_vars

\* fetch of a slug returned the cached document whose urlId ends it, with
\* other requests in flight
C5_Witness ==
  /\ ret.kind = "return"
  /\ ret.req.op = "fetch"
  /\ ret.req.id = <<5, 7>>
  /\ ret.val.id = <<1>>
  /\ Len(inflight) = MaxInFlight

\* C6: in every reachable state in which no fetchNamedPage or fetch request
\* is in flight, isFetching is false, however the completed requests ended.
C6_FetchingFlagReset ==
  (\A i \in InFlightIx : inflight[i].op \notin {"fetchNamedPage", "fetchRecentlyViewed", "fetch"})
  => ~isFetching

\* a list fetch has just failed on a response without data, nothing is in
\* flight and the store is not busy
C6_Witness ==
  /\ ret.kind = "violation"
  /\ ret.req.op = "fetchNamedPage"
  /\ inflight = <<>>
  /\ ~isFetching

\* C7: fetch(id, {prefetch: true}) changes isFetching at no step from its
\* start to its completion, also while another request is in flight.
C7_PrefetchLeavesFlag ==
  [][(ret'.req.op = "fetch" /\ ret'.req.prefetch) => isFetching' = isFetching]_vars


\* s holds x
contains(s, x) == \E k \in 1..Len(s) : s[k] = x

\* t holds its elements in the order s holds them
sameOrder(t, s) ==
  \A a, b \in 1..Len(t) :
    a < b => \E c, d \in 1..Len(s) : c < d /\ s[c] = t[a] /\ s[d] = t[b]

\* C8: after delete(document) completes successfully, document.id is not in
\* recentlyViewedIds, the table has no entry for it, and the other ids keep
\* their relative order in recentlyViewedIds.
C8_DeleteRemovesDocument ==
  [][(ret'.kind = "return" /\ ret'.req.op = "delete")
     => LET id == ret'.req.doc.id IN
        /\ ~contains(recentlyViewedIds', id)
        /\ ~has(data', id)
        /\ \A x \in ViewedIds :
             contains(recentlyViewedIds', x) <=> (contains(recentlyViewedIds, x) /\ x # id)
        /\ Len(recentlyViewedIds') <= Len(recentlyViewedIds)
        /\ sameOrder(recentlyViewedIds', recentlyViewedIds)]_vars

\* a delete has just taken one of three recently viewed ids out of the list
C8_Witness ==
  /\ ret.kind = "return"
  /\ ret.req.op = "delete"
  /\ ret.before = 3
  /\ Len(recentlyViewedIds) = 2

\* no element twice
dupFree(s) == \A a, b \in 1..Len(s) : s[a] = s[b] => a = b

\* the position of the first x in s
firstAt(s, x) == CHOOSE k \in 1..Len(s) : s[k] = x /\ \A j \in 1..(k - 1) : s[j] # x

\* C9: recentlyViewedIds never holds an id twice, and each successful
\* fetchRecentlyViewed keeps the previous list as a prefix and appends, in
\* response order, exactly the returned ids that were not in it.
C9_RecentlyViewedUnion ==
  [][/\ dupFree(recentlyViewedIds')
     /\ (ret'.kind = "return" /\ ret'.req.op = "fetchRecentlyViewed")
        => \A i \in InFlightIx, a \in ViewedAnswers :
             (a[1] = "data" /\ FetchRecentlyViewedResponse(i, a[1], a[2]))
             => LET old == recentlyViewedIds
                    new == recentlyViewedIds'
                    ids == mapId(a[2])
                    added == SubSeq(new, Len(old) + 1, Len(new))
                IN /\ Len(new) >= Len(old)
                   /\ SubSeq(new, 1, Len(old)) = old
                   /\ \A x \in ViewedIds :
                        contains(added, x) <=> (contains(ids, x) /\ ~contains(old, x))
                   /\ \A x, y \in ViewedIds :
                        (contains(added, x) /\ contains(added, y)
                           /\ firstAt(added, x) < firstAt(added, y))
                        => firstAt(ids, x) < firstAt(ids, y)]_vars

\* a fetchRecentlyViewed has just grown the list from two ids to three
C9_Witness ==
  /\ ret.kind = "return"
  /\ ret.req.op = "fetchRecentlyViewed"
  /\ ret.before = 2
  /\ Len(recentlyViewedIds) = 3

\* the request at i is answered without data
NoDataResponse(i) ==
  \/ FetchNamedPageResponse(i, "nodata", <<>>)
  \/ FetchRecentlyViewedResponse(i, "nodata", <<>>)
  \/ SearchResponse(i, "nodata", <<>>)
  \/ FetchResponse(i, "nodata", 1)
  \/ MoveResponse(i, "nodata", 1)
  \/ \E id \in DocIds : DuplicateResponse(i, "nodata", id, 1)
  \/ RestoreResponse(i, "nodata", 1)

\* C10: when the response to fetchNamedPage, fetchRecentlyViewed, fetch,
\* search, move, duplicate or restore lacks data, the operation fails to its
\* caller and the table, recentlyViewedIds, searchCache and isLoaded are as
\* before.
C10_NoDataChangesNothing ==
  [][Len(inflight') < Len(inflight)
     => \A i \in InFlightIx :
          NoDataResponse(i)
          => /\ ret'.kind = "violation"
             /\ UNCHANGED <<data, recentlyViewedIds, searchCache, isLoaded>>]_vars

\* a restore has just failed on a response without data, in a store that
\* holds documents, recently viewed ids and search results
C10_Witness ==
  /\ ret.kind = "violation"
  /\ ret.req.op = "restore"
  /\ isLoaded
  /\ recentlyViewedIds # <<>>
  /\ searchResults("q") # <<>>

\* C11: in every reachable state, each cached search result whose document
\* id has an entry in the table refers to the very instance the table holds
\* for that id.
C11_SearchResultsLive ==
  \A q \in DOMAIN searchCache :
    \A k \in 1..Len(searchCache[q]) :
      LET ref == searchCache[q][k].document IN
      has(data, ref.id) => RefOf(get(data, ref.id)) = ref

\* the index in the table of the document at position k of a view's result
tableIndex(out, k) == CHOOSE i \in 1..Len(data) : data[i].id = out[k].id

\* C12: for every table and collection id c, recentlyUpdatedInCollection(c)
\* holds exactly the documents of the table whose collectionId is c and whose
\* publishedAt is present, each once, by updatedAt non-increasing, documents
\* of equal updatedAt in table insertion order.
C12_RecentlyUpdatedInCollection ==
  ret.req.op = "recentlyUpdatedInCollection"
  => LET out == ret.val
         c == ret.req.query
     IN /\ \A k \in 1..Len(out) :
             /\ contains(data, out[k])
             /\ out[k].collectionId = c
             /\ out[k].publishedAt # Absent
        /\ \A i \in 1..Len(data) :
             (data[i].collectionId = c /\ data[i].publishedAt # Absent)
             => Cardinality({k \in 1..Len(out) : out[k] = data[i]}) = 1
        /\ dupFree(out)
        /\ \A a, b \in 1..Len(out) :
             a < b => /\ out[a].updatedAt >= out[b].updatedAt
                      /\ out[a].updatedAt = out[b].updatedAt
                         => tableIndex(out, a) < tableIndex(out, b)

\* the view of a table of three documents has left out a draft or a document
\* of another collection and lists two documents of equal updatedAt
C12_Witness ==
  /\ ret.req.op = "recentlyUpdatedInCollection"
  /\ Len(data) = 3
  /\ Len(ret.val) = 2
  /\ ret.val[1].updatedAt = ret.val[2].updatedAt

\* where in the cache of its query the search recorded in `ret` put its
\* results: the index before the first of them
lastStart(req) == Min(orZero(req.offset), ret.before)

\* the search recorded in `ret` has just completed with a full page while a
\* search for the same query, with the same limit and another page's offset,
\* was in flight, and this step completes that other search
SecondOfTwoPages ==
  /\ SearchCompletes
  /\ ret.kind = "return"
  /\ ret.req.op = "search"
  /\ ret'.req.query = ret.req.query
  /\ ret.req.limit > 0
  /\ ret'.req.limit = ret.req.limit
  /\ \/ orZero(ret'.req.offset) >= orZero(ret.req.offset) + ret.req.limit
     \/ orZero(ret.req.offset) >= orZero(ret'.req.offset) + ret.req.limit
  /\ lastCount(ret.req) = ret.req.limit

\* C13: when two searches for the same query with the same limit l and
\* different offsets are in flight together and both complete with full
\* pages, in either order, then after the second completion each page
\* occupies [offset, offset + l) of searchResults(q).
C13_PagesLandAtOffsets ==
  [][SecondOfTwoPages
     => \A i \in InFlightIx, page \in HitPages :
          LET first == ret.req
              second == inflight[i]
              l == first.limit
              o1 == orZero(first.offset)
              o2 == orZero(second.offset)
              firstPage == SubSeq(searchResults(first.query),
                                  lastStart(first) + 1, lastStart(first) + l)
              new == searchCache'[second.query]
          IN
          (/\ second = ret'.req
           /\ Len(page) = l
           /\ SearchResponse(i, "data", page))
          => /\ Len(new) >= Max(o1, o2) + l
             /\ SubSeq(new, o1 + 1, o1 + l) = firstPage
             /\ SubSeq(new, o2 + 1, o2 + l) = buildResults(data', page)]_vars

\* C14: in every reachable state in which a fetchNamedPage request or a
\* non-prefetch fetch request is in flight, isFetching is true.
C14_FetchingFlagCovers ==
  (\E i \in InFlightIx :
     \/ inflight[i].op \in {"fetchNamedPage", "fetchRecentlyViewed"}
     \/ inflight[i].op = "fetch" /\ ~inflight[i].prefetch)
  => isFetching

entriesOf(tbl, id) == {k \in 1..Len(tbl) : tbl[k].id = id}

\* the table holds one entry for the id of `item`, with the fields of `item`
holdsPayload(tbl, item) ==
  /\ Cardinality(entriesOf(tbl, item.id)) = 1
  /\ get(tbl, item.id).urlId = item.urlId
  /\ get(tbl, item.id).updatedAt = item.updatedAt

\* the last payload for id in a page that has one
lastFor(page, id) == page[CHOOSE k \in 1..Len(page) :
                            page[k].id = id /\ \A j \in (k + 1)..Len(page) : page[j].id # id]

\* C16: after the response of a fetch or fetchNamedPage request has been
\* processed, whatever other requests were in flight with it and whatever
\* they returned before, the table holds a single entry for each id of the
\* response, with the fields of that response's payload for the id; so of
\* two requests in flight together, the one answered last decides.
C16_LastResponseWins ==
  [][(Len(inflight') < Len(inflight) /\ ret'.kind = "return")
     => \A i \in InFlightIx :
          /\ \A v \in Versions :
               FetchResponse(i, "data", v)
               => holdsPayload(data', Payload(ServedId(inflight[i].id), v))
          /\ \A page \in SeqsUpTo(Payloads, MaxPage) :
               FetchNamedPageResponse(i, "data", page)
               => \A id \in DocIds :
                    contains(mapId(page), id) => holdsPayload(data', lastFor(page, id))]_vars

\* the response of a fetch has just overwritten, with other fields, the entry
\* that another response added while this fetch was in flight
C16_Witness ==
  /\ ret.kind = "return"
  /\ ret.req.op = "fetch"
  /\ ret.before = 1
  /\ get(data, ret.val.id).updatedAt = 2

\* this step is a call of fetch or of prefetchDocument
FetchOrPrefetchCalled ==
  /\ ret'.req.op \in {"fetch", "prefetchDocument"}
  /\ Len(inflight') >= Len(inflight)

\* the documents.info requests in flight for id
infoRequests(reqs, id) == {i \in 1..Len(reqs) : reqs[i].op = "fetch" /\ reqs[i].id = id}

\* C17: a call of fetch(id) or prefetchDocument(id) made while the table has
\* no document for id, by id or by urlId suffix, sends its own documents.info
\* request, however many requests for id are in flight; a call made while
\* the table has one sends none.
C17_RequestsNotCoalesced ==
  [][FetchOrPrefetchCalled
     => LET id == ret'.req.id IN
        IF CachedFor(id) = {}
        THEN /\ Len(inflight') = Len(inflight) + 1
             /\ SubSeq(inflight', 1, Len(inflight)) = inflight
             /\ Cardinality(infoRequests(inflight', id))
                  = Cardinality(infoRequests(inflight, id)) + 1
        ELSE inflight' = inflight]_vars

\* two calls for the same absent id, one of them a prefetch, have each sent
\* a request before any response
C17_Witness ==
  /\ ret.kind = "pending"
  /\ Len(inflight) = 2
  /\ Cardinality(infoRequests(inflight, <<1>>)) = 2
  /\ inflight[1].prefetch # inflight[2].prefetch
  /\ data = <<>>

\* the last step completed a delete, so every request now in flight was
\* issued before that completion, and this step is the response to one
StaleResponseAfterDelete ==
  /\ ret.kind = "return"
  /\ ret.req.op = "delete"
  /\ Len(inflight') < Len(inflight)

\* C18: once delete(d) has completed, the response of a request issued
\* before that completion does not put d.id back into the table or into
\* recentlyViewedIds.
C18_DeletedStaysDeleted ==
  [][StaleResponseAfterDelete
     => /\ ~has(data', ret.req.doc.id)
        /\ ~contains(recentlyViewedIds', ret.req.doc.id)]_vars

\* C19: when search(q), called with no offset and no limit, completes twice
\* in succession with the same response, the cached sequence of q after the
\* second completion equals the one after the first.
C19_UnpaginatedSearchIdempotent ==
  [][(/\ SearchCompletes
      /\ ret.kind = "return"
      /\ ret'.req = ret.req
      /\ ret.req.offset = Absent
      /\ ret.req.limit = Absent)
     => \A i \in InFlightIx, page \in HitPages :
          LET req == inflight[i] IN
          (/\ SameResponseAsLast(req, page)
           /\ SearchResponse(i, "data", page))
          => searchCache'[req.query] = searchCache[req.query]]_vars

====
